---- MODULE Spec2Model ----
(***************************************************************************)
(* The socket adapter of zig-wasm-cpython: the high-level Socket class of  *)
(* wasisocket.py, and the wrapper class socket of socket_patch.py, layered *)
(* over the blocking provider _wasisocket (sock_open, sock_resolve,        *)
(* sock_connect, sock_send, sock_recv, sock_close).  Each method is an     *)
(* operator from the object's fields and                                   *)
(* the provider's outcome to the object's new fields, the provider calls   *)
(* it made, the exception it raised and the value it returned.  The        *)
(* provider is external: every outcome it can produce is drawn             *)
(* nondeterministically by the action that runs the method.                *)
(***************************************************************************)
EXTENDS Integers, Sequences, FiniteSets, TLC

\* ------------------------------------------------------------------ bounds
\* longest payload handed to send/sendall
MaxLen == 3
\* largest bufsize handed to recv
MaxBuf == 2
\* descriptors the provider issues in one run (Socket objects constructed)
MaxSockets == 2
\* longest candidate list the resolver returns
MaxAddrs == 2
\* close() calls followed on an object that still holds its descriptor (the
\* wrapper class keeps a descriptor whose sock_close failed, and may close it
\* again and again)
MaxCloseCalls == 1
\* runs of compile_lib followed in one behaviour
MaxRuns == 2

\* --------------------------------------------------------------- constants
\* Python's None, for the Optional[int] field _fd (descriptors are >= 1 here)
None == -1
\* address families and socket types, re-exported from the provider
AF_INET == 2
AF_INET6 == 10
SOCK_STREAM == 1
SOCK_DGRAM == 2
\* socket option levels and names
SOL_SOCKET == 1
SO_KEEPALIVE == 9
IPPROTO_TCP == 6
TCP_NODELAY == 1
\* the sentinel object(): a value that is neither None nor a number
_GLOBAL_DEFAULT_TIMEOUT == -2

\* the (family, socktype) pairs a caller constructs a Socket with
Kinds == {<<AF_INET, SOCK_STREAM>>, <<AF_INET6, SOCK_DGRAM>>}
Fds == 1..MaxSockets
Byte == {71, 69}
Hosts == {"example.com"}
Ports == {80}
Addresses == Hosts \X Ports
Timeouts == {None, 30}

\* all sequences over S of length 0..n
RECURSIVE SeqsUpTo(_, _)
SeqsUpTo(S, n) ==
    IF n = 0 THEN {<<>>}
    ELSE LET shorter == SeqsUpTo(S, n - 1)
         IN shorter \cup {Append(s, x) : s \in {t \in shorter : Len(t) = n - 1}, x \in S}

Payloads == SeqsUpTo(Byte, MaxLen)
\* what a caller may hand to send/sendall: bytes of any length up to MaxLen,
\* and a bytearray or a text of at most one element
Datas ==
    [type : {"bytes"}, val : Payloads]
        \cup [type : {"bytearray", "str"}, val : {p \in Payloads : Len(p) <= 1}]

\* candidate addresses (family, port, addr_bytes) the resolver may return
Candidates == {<<AF_INET, 80, <<93, 184, 216, 34>>>>, <<AF_INET6, 80, <<38, 6>>>>}

\* -------------------------------------------------------------- exceptions
\* class error(OSError); timeout, gaierror, herror derive from error;
\* SocketError is an alias of error
SocketError == "error"
Parents(cls) ==
    CASE cls = "error" -> {"OSError"}
      [] cls = "timeout" -> {"error"}
      [] cls = "gaierror" -> {"error"}
      [] cls = "herror" -> {"error"}
      [] OTHER -> {}

\* isinstance(exception of class cls, base)
IsInstance(cls, base) ==
    \/ cls = base
    \/ \E p \in Parents(cls) : p = base \/ \E q \in Parents(p) : q = base

\* no exception; kind is the class raised, cause the class of __cause__
NoExc == [kind |-> "none", cause |-> "none", msg |-> ""]
\* raise cls(msg)
Raise(cls, msg) == [kind |-> cls, cause |-> "none", msg |-> msg]
\* raise cls(msg) from e, e being the provider's OSError
RaiseFrom(cls, msg) == [kind |-> cls, cause |-> "OSError", msg |-> msg]
\* the provider's own failure, an OSError, propagating unwrapped
ProviderError == [kind |-> "OSError", cause |-> "none", msg |-> "provider"]

\* ---------------------------------------------------------- return values
RNone == [t |-> "None", n |-> 0, b |-> <<>>]
RInt(n) == [t |-> "int", n |-> n, b |-> <<>>]
RBytes(b) == [t |-> "bytes", n |-> 0, b |-> b]
RSocket == [t |-> "Socket", n |-> 0, b |-> <<>>]
\* a timeout value: None, a number or the sentinel
RValue(v) == [t |-> "value", n |-> v, b |-> <<>>]

\* ---------------------------------------------------------- provider calls
\* one record per call of a provider primitive: the arguments handed, whether
\* the provider succeeded (ok) and what it returned (n: the descriptor
\* issued, the number of candidates, the byte count; addrs: the candidates
\* of sock_resolve; data: the bytes of sock_recv)
Call(prim, fd, ok, n) ==
    [prim |-> prim, fd |-> fd, host |-> "", family |-> 0, socktype |-> 0,
     port |-> 0, bytes |-> <<>>, bufsize |-> 0, ok |-> ok, n |-> n,
     addrs |-> <<>>, data |-> <<>>]
CallOpen(family, socktype, o) ==
    [Call("sock_open", None, o.ok, o.fd) EXCEPT !.family = family, !.socktype = socktype]
CallResolve(hostname, port, r) ==
    [Call("sock_resolve", None, r.ok, Len(r.addrs)) EXCEPT
        !.host = hostname, !.port = port, !.addrs = r.addrs]
CallConnect(fd, family, port, addr_bytes, c) ==
    [Call("sock_connect", fd, c.ok, 0) EXCEPT
        !.family = family, !.port = port, !.bytes = addr_bytes]
CallSend(fd, data, o) == [Call("sock_send", fd, o.ok, o.n) EXCEPT !.bytes = data]
CallRecv(fd, bufsize, o) ==
    [Call("sock_recv", fd, o.ok, Len(o.data)) EXCEPT !.bufsize = bufsize, !.data = o.data]
CallClose(fd, o) == Call("sock_close", fd, o.ok, 0)

\* the provider's outcomes
OpenOuts(fd) == {[ok |-> TRUE, fd |-> fd], [ok |-> FALSE, fd |-> None]}
ResolveOuts ==
    {[ok |-> FALSE, addrs |-> <<>>]} \cup [ok : {TRUE}, addrs : SeqsUpTo(Candidates, MaxAddrs)]
OkOuts == {[ok |-> TRUE], [ok |-> FALSE]}
SendOuts(handed) == {[ok |-> FALSE, n |-> 0]} \cup [ok : {TRUE}, n : 0..Len(handed)]
RecvOuts(bufsize) ==
    {[ok |-> FALSE, data |-> <<>>]} \cup [ok : {TRUE}, data : SeqsUpTo(Byte, bufsize)]

\* ------------------------------------------------------------ class Socket
\* result of a method: the object, the provider calls made, the exception, the value
Result(self, calls, exc, ret) == [self |-> self, calls |-> calls, exc |-> exc, ret |-> ret]

\* the three lifecycle states, as __repr__ reports them
State(self) ==
    IF self._fd = None THEN "Closed"
    ELSE IF self._connected THEN "Connected" ELSE "Open"

\* Socket.__init__(family, socktype), o the outcome of sock_open
__init__(family, socktype, o) ==
    LET self == [cls |-> "Socket", family |-> family, socktype |-> socktype,
                 _fd |-> None, _connected |-> FALSE]
        calls == <<CallOpen(family, socktype, o)>>
    IN IF o.ok THEN Result([self EXCEPT !._fd = o.fd], calls, NoExc, RNone)
       ELSE Result(self, calls, ProviderError, RNone)

\* faulty connect: the test of self._connected is missing
connect_again(self, address, r, c) ==
    IF self._fd = None THEN Result(self, <<>>, Raise(SocketError, "Socket is closed"), RNone)
    ELSE LET c1 == <<CallResolve(address[1], address[2], r)>>
         IN IF ~r.ok THEN Result(self, c1, ProviderError, RNone)
            ELSE IF r.addrs = <<>>
            THEN Result(self, c1, Raise("gaierror", "Cannot resolve hostname"), RNone)
            ELSE LET c2 == Append(c1, CallConnect(self._fd, r.addrs[1][1], r.addrs[1][2],
                                                  r.addrs[1][3], c))
                 IN IF c.ok THEN Result([self EXCEPT !._connected = TRUE], c2, NoExc, RNone)
                    ELSE Result(self, c2, RaiseFrom("error", "Connection failed"), RNone)

\* faulty connect: the test of an empty candidate list is missing, so addrs[0]
\* fails with an IndexError
connect_no_empty_test(self, address, r, c) ==
    IF self._fd = None THEN Result(self, <<>>, Raise(SocketError, "Socket is closed"), RNone)
    ELSE IF self._connected
    THEN Result(self, <<>>, Raise(SocketError, "Socket is already connected"), RNone)
    ELSE LET c1 == <<CallResolve(address[1], address[2], r)>>
         IN IF ~r.ok THEN Result(self, c1, ProviderError, RNone)
            ELSE IF r.addrs = <<>>
            THEN Result(self, c1, Raise("IndexError", "list index out of range"), RNone)
            ELSE LET c2 == Append(c1, CallConnect(self._fd, r.addrs[1][1], r.addrs[1][2],
                                                  r.addrs[1][3], c))
                 IN IF c.ok THEN Result([self EXCEPT !._connected = TRUE], c2, NoExc, RNone)
                    ELSE Result(self, c2, RaiseFrom("error", "Connection failed"), RNone)

\* faulty connect: when sock_connect fails on the first candidate the next
\* one is tried as well
connect_falls_back(self, address, r, c) ==
    IF self._fd = None THEN Result(self, <<>>, Raise(SocketError, "Socket is closed"), RNone)
    ELSE IF self._connected
    THEN Result(self, <<>>, Raise(SocketError, "Socket is already connected"), RNone)
    ELSE LET c1 == <<CallResolve(address[1], address[2], r)>>
         IN IF ~r.ok THEN Result(self, c1, ProviderError, RNone)
            ELSE IF r.addrs = <<>>
            THEN Result(self, c1, Raise("gaierror", "Cannot resolve hostname"), RNone)
            ELSE LET c2 == Append(c1, CallConnect(self._fd, r.addrs[1][1], r.addrs[1][2],
                                                  r.addrs[1][3], c))
                     c3 == IF Len(r.addrs) > 1
                           THEN Append(c2, CallConnect(self._fd, r.addrs[2][1],
                                                       r.addrs[2][2], r.addrs[2][3], c))
                           ELSE c2
                 IN IF c.ok THEN Result([self EXCEPT !._connected = TRUE], c2, NoExc, RNone)
                    ELSE Result(self, c3, RaiseFrom("error", "Connection failed"), RNone)

\* faulty connect: self._connected = True is missing after sock_connect
connect_unmarked(self, address, r, c) ==
    IF self._fd = None THEN Result(self, <<>>, Raise(SocketError, "Socket is closed"), RNone)
    ELSE IF self._connected
    THEN Result(self, <<>>, Raise(SocketError, "Socket is already connected"), RNone)
    ELSE LET c1 == <<CallResolve(address[1], address[2], r)>>
         IN IF ~r.ok THEN Result(self, c1, ProviderError, RNone)
            ELSE IF r.addrs = <<>>
            THEN Result(self, c1, Raise("gaierror", "Cannot resolve hostname"), RNone)
            ELSE LET c2 == Append(c1, CallConnect(self._fd, r.addrs[1][1], r.addrs[1][2],
                                                  r.addrs[1][3], c))
                 IN IF c.ok THEN Result(self, c2, NoExc, RNone)
                    ELSE Result(self, c2, RaiseFrom("error", "Connection failed"), RNone)

\* Socket.connect(address), r the outcome of sock_resolve, c of sock_connect
connect(self, address, r, c) ==
    IF self._fd = None THEN Result(self, <<>>, Raise(SocketError, "Socket is closed"), RNone)
    ELSE IF self._connected
    THEN Result(self, <<>>, Raise(SocketError, "Socket is already connected"), RNone)
    ELSE LET hostname == address[1]
             port == address[2]
             c1 == <<CallResolve(hostname, port, r)>>
         IN IF ~r.ok THEN Result(self, c1, ProviderError, RNone)
            ELSE IF r.addrs = <<>>
            THEN Result(self, c1, Raise("gaierror", "Cannot resolve hostname"), RNone)
            ELSE LET family == r.addrs[1][1]
                     resolved_port == r.addrs[1][2]
                     addr_bytes == r.addrs[1][3]
                     c2 == Append(c1, CallConnect(self._fd, family, resolved_port,
                                                addr_bytes, c))
                 IN IF c.ok THEN Result([self EXCEPT !._connected = TRUE], c2, NoExc, RNone)
                    ELSE Result(self, c2, RaiseFrom("error", "Connection failed"), RNone)

\* faulty send: the test of self._connected is missing
send_unchecked(self, data, o) ==
    IF self._fd = None THEN Result(self, <<>>, Raise(SocketError, "Socket is closed"), RNone)
    ELSE IF data.type \notin {"bytes", "bytearray"}
    THEN Result(self, <<>>, Raise("TypeError", "data must be bytes or bytearray"), RNone)
    ELSE LET calls == <<CallSend(self._fd, data.val, o)>>
         IN IF o.ok THEN Result(self, calls, NoExc, RInt(o.n))
            ELSE Result(self, calls, RaiseFrom(SocketError, "Send failed"), RNone)

\* faulty send: the except clause clears the connected flag before it raises
send_disconnects(self, data, o) ==
    IF self._fd = None THEN Result(self, <<>>, Raise(SocketError, "Socket is closed"), RNone)
    ELSE IF ~self._connected
    THEN Result(self, <<>>, Raise(SocketError, "Socket is not connected"), RNone)
    ELSE IF data.type \notin {"bytes", "bytearray"}
    THEN Result(self, <<>>, Raise("TypeError", "data must be bytes or bytearray"), RNone)
    ELSE LET calls == <<CallSend(self._fd, data.val, o)>>
         IN IF o.ok THEN Result(self, calls, NoExc, RInt(o.n))
            ELSE Result([self EXCEPT !._connected = FALSE], calls,
                        RaiseFrom(SocketError, "Send failed"), RNone)

\* faulty send: the length of data is returned, not the count of sock_send
send_returns_len(self, data, o) ==
    IF self._fd = None THEN Result(self, <<>>, Raise(SocketError, "Socket is closed"), RNone)
    ELSE IF ~self._connected
    THEN Result(self, <<>>, Raise(SocketError, "Socket is not connected"), RNone)
    ELSE IF data.type \notin {"bytes", "bytearray"}
    THEN Result(self, <<>>, Raise("TypeError", "data must be bytes or bytearray"), RNone)
    ELSE LET calls == <<CallSend(self._fd, data.val, o)>>
         IN IF o.ok THEN Result(self, calls, NoExc, RInt(Len(data.val)))
            ELSE Result(self, calls, RaiseFrom(SocketError, "Send failed"), RNone)

\* Socket.send(data), o the outcome of sock_send
send(self, data, o) ==
    IF self._fd = None THEN Result(self, <<>>, Raise(SocketError, "Socket is closed"), RNone)
    ELSE IF ~self._connected
    THEN Result(self, <<>>, Raise(SocketError, "Socket is not connected"), RNone)
    ELSE IF data.type \notin {"bytes", "bytearray"}
    THEN Result(self, <<>>, Raise("TypeError", "data must be bytes or bytearray"), RNone)
    ELSE LET calls == <<CallSend(self._fd, data.val, o)>>
         IN IF o.ok THEN Result(self, calls, NoExc, RInt(o.n))
            ELSE Result(self, calls, RaiseFrom(SocketError, "Send failed"), RNone)

\* Socket.recv(bufsize), o the outcome of sock_recv
recv(self, bufsize, o) ==
    IF self._fd = None THEN Result(self, <<>>, Raise(SocketError, "Socket is closed"), RNone)
    ELSE IF ~self._connected
    THEN Result(self, <<>>, Raise(SocketError, "Socket is not connected"), RNone)
    ELSE LET calls == <<CallRecv(self._fd, bufsize, o)>>
         IN IF o.ok THEN Result(self, calls, NoExc, RBytes(o.data))
            ELSE Result(self, calls, RaiseFrom(SocketError, "Receive failed"), RNone)

\* faulty close: the finally clause forgets self._fd = None
close_keeps_fd(self, o) ==
    IF self._fd # None
    THEN Result([self EXCEPT !._connected = FALSE], <<CallClose(self._fd, o)>>, NoExc, RNone)
    ELSE Result(self, <<>>, NoExc, RNone)

\* faulty close: the test of self._fd is missing, sock_close is always called
close_unguarded(self, o) ==
    Result([self EXCEPT !._fd = None, !._connected = FALSE],
           <<CallClose(self._fd, o)>>, NoExc, RNone)

\* faulty close: no try/except/finally around sock_close, so its OSError
\* propagates and the fields stay as they were
close_propagates(self, o) ==
    IF self._fd # None
    THEN IF o.ok
         THEN Result([self EXCEPT !._fd = None, !._connected = FALSE],
                     <<CallClose(self._fd, o)>>, NoExc, RNone)
         ELSE Result(self, <<CallClose(self._fd, o)>>, ProviderError, RNone)
    ELSE Result(self, <<>>, NoExc, RNone)

\* Socket.close(), o the outcome of sock_close: an OSError is ignored, and the
\* finally clause clears both fields on either outcome
close(self, o) ==
    IF self._fd # None
    THEN Result([self EXCEPT !._fd = None, !._connected = FALSE],
                <<CallClose(self._fd, o)>>, NoExc, RNone)
    ELSE Result(self, <<>>, NoExc, RNone)

\* faulty slice: the whole of data is sent again on every pass
Slice_whole(data, total_sent) == data

\* the slice data[total_sent:]
Slice(data, total_sent) ==
    [data EXCEPT !.val = SubSeq(data.val, total_sent + 1, Len(data.val))]

\* faulty loop body: a zero count is not tested, the pass is simply repeated
sendall_body_retries(self, data, total_sent, o) ==
    LET r == send(self, Slice(data, total_sent), o)
    IN IF r.exc # NoExc THEN [res |-> r, total_sent |-> total_sent]
       ELSE [res |-> Result(r.self, r.calls, NoExc, RNone),
             total_sent |-> total_sent + r.ret.n]

\* one pass of the while loop of Socket.sendall: send the unsent remainder, fail
\* on a zero count, else advance total_sent; o the outcome of sock_send
sendall_body(self, data, total_sent, o) ==
    LET r == send(self, Slice(data, total_sent), o)
    IN IF r.exc # NoExc THEN [res |-> r, total_sent |-> total_sent]
       ELSE IF r.ret.n = 0
       THEN [res |-> Result(r.self, r.calls,
                            Raise(SocketError, "Connection closed during send"), RNone),
             total_sent |-> total_sent]
       ELSE [res |-> Result(r.self, r.calls, NoExc, RNone),
             total_sent |-> total_sent + r.ret.n]

\* faulty create_connection: no try/except, a failed connect leaves the socket
\* as it is
create_connection_leaks(address, timeout, o, r, c, x) ==
    LET s == __init__(AF_INET, SOCK_STREAM, o)
    IN IF s.exc # NoExc THEN s
       ELSE LET k == connect(s.self, address, r, c)
            IN Result(k.self, s.calls \o k.calls, k.exc,
                      IF k.exc = NoExc THEN RSocket ELSE RNone)

\* faulty create_connection: with a timeout given, a failure of connect is
\* reported as the timeout error
create_connection_enforces(address, timeout, o, r, c, x) ==
    LET s == __init__(AF_INET, SOCK_STREAM, o)
    IN IF s.exc # NoExc THEN s
       ELSE LET k == connect(s.self, address, r, c)
            IN IF k.exc = NoExc THEN Result(k.self, s.calls \o k.calls, NoExc, RSocket)
               ELSE LET z == close(k.self, x)
                    IN Result(z.self, s.calls \o k.calls \o z.calls,
                              IF timeout # None THEN Raise("timeout", "timed out") ELSE k.exc,
                              RNone)

\* create_connection(address, timeout): Socket(AF_INET, SOCK_STREAM), connect,
\* and on any exception of connect close() and re-raise; timeout is not read.
\* o, r, c, x are the outcomes of sock_open, sock_resolve, sock_connect, sock_close
create_connection(address, timeout, o, r, c, x) ==
    LET s == __init__(AF_INET, SOCK_STREAM, o)
    IN IF s.exc # NoExc THEN s
       ELSE LET k == connect(s.self, address, r, c)
            IN IF k.exc = NoExc THEN Result(k.self, s.calls \o k.calls, NoExc, RSocket)
               ELSE LET z == close(k.self, x)
                    IN Result(z.self, s.calls \o k.calls \o z.calls,
                              IF z.exc # NoExc THEN z.exc ELSE k.exc, RNone)

\* getdefaulttimeout(), g the module's global _default_timeout
getdefaulttimeout(g) == RValue(g)

\* setdefaulttimeout(timeout): the new value of the global _default_timeout
setdefaulttimeout(g, timeout) == timeout

\* ------------------------------------------- socket_patch.py: class socket
\* a primitive of the provider handed None where it takes a descriptor, or
\* text where it takes bytes: the call is made and fails in the provider
BadArgument == [kind |-> "TypeError", cause |-> "none", msg |-> "provider"]
Failed == [ok |-> FALSE, n |-> 0]

\* socket.__init__(family, type, proto, fileno), o the outcome of sock_open;
\* -1 stands for an argument left out
socket_init(family, type, proto, fileno, o) ==
    LET f == IF family = -1 THEN AF_INET ELSE family
        t == IF type = -1 THEN SOCK_STREAM ELSE type
        p == IF proto = -1 THEN 0 ELSE proto
        self == [cls |-> "socket", _family |-> f, _type |-> t, _proto |-> p,
                 _fd |-> None, _connected |-> FALSE]
    IN IF fileno # None THEN Result([self EXCEPT !._fd = fileno], <<>>, NoExc, RNone)
       ELSE IF o.ok THEN Result([self EXCEPT !._fd = o.fd], <<CallOpen(f, t, o)>>, NoExc, RNone)
       ELSE Result(self, <<CallOpen(f, t, o)>>, ProviderError, RNone)

\* socket.close(), o the outcome of sock_close: no try around the call
socket_close(self, o) ==
    IF self._fd # None
    THEN IF o.ok
         THEN Result([self EXCEPT !._fd = None, !._connected = FALSE],
                     <<CallClose(self._fd, o)>>, NoExc, RNone)
         ELSE Result(self, <<CallClose(self._fd, o)>>, ProviderError, RNone)
    ELSE Result(self, <<>>, NoExc, RNone)

\* socket.connect(address), r the outcome of sock_resolve, c of sock_connect
socket_connect(self, address, r, c) ==
    LET hostname == address[1]
        port == address[2]
        c1 == <<CallResolve(hostname, port, r)>>
    IN IF ~r.ok THEN Result(self, c1, ProviderError, RNone)
       ELSE IF r.addrs = <<>>
       THEN Result(self, c1, Raise("gaierror", "Cannot resolve hostname"), RNone)
       ELSE LET family == r.addrs[1][1]
                resolved_port == r.addrs[1][2]
                addr_bytes == r.addrs[1][3]
            IN IF self._fd = None
               THEN Result(self, Append(c1, CallConnect(None, family, resolved_port,
                                                        addr_bytes, Failed)),
                           BadArgument, RNone)
               ELSE IF c.ok
               THEN Result([self EXCEPT !._connected = TRUE],
                           Append(c1, CallConnect(self._fd, family, resolved_port,
                                                  addr_bytes, c)), NoExc, RNone)
               ELSE Result(self, Append(c1, CallConnect(self._fd, family, resolved_port,
                                                        addr_bytes, c)),
                           ProviderError, RNone)

\* the errno attribute the provider's OSError may carry: None when it was
\* raised with a message only, else an error number
Errnos == {None, 111}

\* e.errno of the exception connect raised: every OSError has the attribute,
\* and it is None unless the exception was constructed with an error number;
\* errno is what the provider put in its own OSError
ErrnoOf(exc, errno) == IF exc = ProviderError THEN errno ELSE None

\* socket.connect_ex(address): connect, 0 on success; an OSError is caught and
\* e.errno returned (hasattr(e, 'errno') holds for every OSError); any other
\* exception propagates
socket_connect_ex(self, address, r, c, errno) ==
    LET k == socket_connect(self, address, r, c)
        v == ErrnoOf(k.exc, errno)
    IN IF k.exc = NoExc THEN Result(k.self, k.calls, NoExc, RInt(0))
       ELSE IF IsInstance(k.exc.kind, "OSError")
       THEN Result(k.self, k.calls, NoExc, IF v = None THEN RNone ELSE RInt(v))
       ELSE k

\* one pass of the while loop of socket.sendall: sock_send on the unsent
\* remainder, OSError on a zero count, else advance total_sent
socket_sendall_body(self, data, total_sent, o) ==
    LET handed == Slice(data, total_sent)
    IN IF self._fd = None \/ handed.type = "str"
       THEN [res |-> Result(self, <<CallSend(self._fd, handed.val, Failed)>>,
                            BadArgument, RNone),
             total_sent |-> total_sent]
       ELSE IF ~o.ok
       THEN [res |-> Result(self, <<CallSend(self._fd, handed.val, o)>>,
                            ProviderError, RNone),
             total_sent |-> total_sent]
       ELSE IF o.n = 0
       THEN [res |-> Result(self, <<CallSend(self._fd, handed.val, o)>>,
                            Raise("OSError", "Connection closed during send"), RNone),
             total_sent |-> total_sent]
       ELSE [res |-> Result(self, <<CallSend(self._fd, handed.val, o)>>, NoExc, RNone),
             total_sent |-> total_sent + o.n]

\* socket.send(data), o the outcome of sock_send: the provider is called
\* whatever the state of the object, and its OSError is not wrapped
socket_send(self, data, o) ==
    IF self._fd = None \/ data.type = "str"
    THEN Result(self, <<CallSend(self._fd, data.val, Failed)>>, BadArgument, RNone)
    ELSE IF o.ok THEN Result(self, <<CallSend(self._fd, data.val, o)>>, NoExc, RInt(o.n))
    ELSE Result(self, <<CallSend(self._fd, data.val, o)>>, ProviderError, RNone)

\* socket.recv(bufsize), o the outcome of sock_recv
socket_recv(self, bufsize, o) ==
    IF self._fd = None
    THEN Result(self, <<CallRecv(None, bufsize, [ok |-> FALSE, data |-> <<>>])>>,
                BadArgument, RNone)
    ELSE IF o.ok THEN Result(self, <<CallRecv(self._fd, bufsize, o)>>, NoExc, RBytes(o.data))
    ELSE Result(self, <<CallRecv(self._fd, bufsize, o)>>, ProviderError, RNone)

\* the tuple (data, None)
RPair(b) == [t |-> "tuple", n |-> None, b |-> b]

\* socket.recvfrom(bufsize): sock_recv, and the data paired with None
socket_recvfrom(self, bufsize, o) ==
    LET r == socket_recv(self, bufsize, o)
    IN IF r.exc # NoExc THEN r ELSE Result(r.self, r.calls, NoExc, RPair(r.ret.b))

\* socket.recv_into(buffer, nbytes): nbytes = 0 stands for len(buffer); the
\* data received replaces buffer[:n]; the value is n with the buffer's new
\* content
socket_recv_into(self, buffer, nbytes, o) ==
    LET nb == IF nbytes = 0 THEN Len(buffer) ELSE nbytes
        r == socket_recv(self, nb, o)
        n == Len(r.ret.b)
    IN IF r.exc # NoExc THEN r
       ELSE Result(r.self, r.calls, NoExc,
                   [t |-> "int", n |-> n, b |-> r.ret.b \o SubSeq(buffer, n + 1, Len(buffer))])

\* socket.getsockopt(level, optname): return 0
socket_getsockopt(self, level, optname) == Result(self, <<>>, NoExc, RInt(0))

\* socket.setsockopt(level, optname, value): pass
socket_setsockopt(self, level, optname, value) == Result(self, <<>>, NoExc, RNone)

\* socket.setblocking(flag): pass
socket_setblocking(self, flag) == Result(self, <<>>, NoExc, RNone)

\* socket.settimeout(value): pass
socket_settimeout(self, value) == Result(self, <<>>, NoExc, RNone)

\* socket.gettimeout(): return None
socket_gettimeout(self) == Result(self, <<>>, NoExc, RNone)

\* faulty shutdown: the connected flag is cleared
socket_shutdown_disconnects(self, how) ==
    Result([self EXCEPT !._connected = FALSE], <<>>, NoExc, RNone)

\* socket.shutdown(how): pass
socket_shutdown(self, how) == Result(self, <<>>, NoExc, RNone)

\* ---------------------------------- socket_patch.py: module-level statements
\* ns maps each attribute of the provider module to who defined it: "absent",
\* "provider" or "patch"
\* setattr(_wasisocket, a, ...) for every a in names
SetAttrs(ns, names) == [a \in DOMAIN ns |-> IF a \in names THEN "patch" ELSE ns[a]]

\* if not hasattr(_wasisocket, guard): set every attribute in names
IfMissing(ns, guard, names) == IF ns[guard] = "absent" THEN SetAttrs(ns, names) ELSE ns

\* the statements of lines 150-204 in order: socket is always set; error,
\* timeout, gaierror, herror, getaddrinfo and has_ipv6 each under their own
\* test; the five option constants under the test of SOL_SOCKET alone; the
\* two default-timeout functions under the test of getdefaulttimeout alone
patch_attributes(ns) ==
    LET n1 == SetAttrs(ns, {"socket"})
        n2 == IfMissing(n1, "error", {"error"})
        n3 == IfMissing(n2, "timeout", {"timeout"})
        n4 == IfMissing(n3, "gaierror", {"gaierror"})
        n5 == IfMissing(n4, "herror", {"herror"})
        n6 == IfMissing(n5, "SOL_SOCKET",
                        {"SOL_SOCKET", "SO_REUSEADDR", "SO_KEEPALIVE", "IPPROTO_TCP",
                         "TCP_NODELAY"})
        n7 == IfMissing(n6, "getdefaulttimeout", {"getdefaulttimeout", "setdefaulttimeout"})
        n8 == IfMissing(n7, "getaddrinfo", {"getaddrinfo"})
    IN IfMissing(n8, "has_ipv6", {"has_ipv6"})

\* ------------------------------------------------------ compile_library.py
\* the files os.walk finds in the source tree
Files ==
    {[dir |-> ".", stem |-> "a", ext |-> ".py"],
     [dir |-> "pkg", stem |-> "b", ext |-> ".py"],
     [dir |-> ".", stem |-> "notes", ext |-> ".txt"],
     [dir |-> "tests", stem |-> "t", ext |-> ".py"]}
\* fname.endswith('.py')
IsPy(f) == f.ext = ".py"
\* line 66: the directories the walk does not enter
SkippedDirs == {"__pycache__", "test", "tests", "examples"}
\* the files the loop of lines 73-75 goes on with
Visited(f) == f.dir \notin SkippedDirs /\ IsPy(f)
\* what a source file may contain
Contents == {"v1", "v2"}

\* get_file_hash(path): the md5 digest of the file's content
get_file_hash(content) == <<"md5", content>>
\* rel_file not in lib_data["files"]
NoHash == <<"absent", "">>
Hashes == {get_file_hash(c) : c \in Contents}

\* lines 83-84: the test that makes compile_lib skip a file
UpToDate(f, src, out, man, force) ==
    ~force /\ man[f] # NoHash /\ man[f] = get_file_hash(src[f]) /\ out[f]

\* faulty compile_lib: the hash is recorded in the manifest before
\* py_compile.compile is called, so also when it fails
compile_lib_records_early(src, out, man, force, ok) ==
    LET visited == {f \in DOMAIN src : Visited(f)}
        skipped == {f \in visited : UpToDate(f, src, out, man, force)}
        compiled == {f \in visited \ skipped : ok[f]}
        failed == visited \ (skipped \cup compiled)
    IN [compiled |-> compiled, skipped |-> skipped, failed |-> failed,
        pyc |-> [f \in DOMAIN out |-> out[f] \/ f \in compiled],
        manifest |-> [f \in DOMAIN man |->
                        IF f \in compiled \cup failed THEN get_file_hash(src[f]) ELSE man[f]],
        ret |-> <<Cardinality(compiled), Cardinality(skipped), Cardinality(failed)>>]

\* compile_lib(source_dir, lib_name, force) over the files src, the outputs
\* out and the manifest man; ok[f] tells whether py_compile.compile succeeds
\* on f.  Every .py file is skipped, compiled or failed; a compiled file has
\* its output written and its hash recorded; a failed one changes nothing.
\* The value is the three counts, with the manifest saved at the end.
compile_lib(src, out, man, force, ok) ==
    LET visited == {f \in DOMAIN src : Visited(f)}
        skipped == {f \in visited : UpToDate(f, src, out, man, force)}
        compiled == {f \in visited \ skipped : ok[f]}
        failed == visited \ (skipped \cup compiled)
    IN [compiled |-> compiled, skipped |-> skipped, failed |-> failed,
        pyc |-> [f \in DOMAIN out |-> out[f] \/ f \in compiled],
        manifest |-> [f \in DOMAIN man |->
                        IF f \in compiled THEN get_file_hash(src[f]) ELSE man[f]],
        ret |-> <<Cardinality(compiled), Cardinality(skipped), Cardinality(failed)>>]

\* no run of compile_lib yet
NoRun ==
    [n |-> 0, force |-> FALSE, compiled |-> {}, skipped |-> {}, failed |-> {},
     ret |-> <<0, 0, 0>>, unchanged |-> FALSE,
     was |-> [force |-> FALSE, compiled |-> {}, failed |-> {}, current |-> {}]]

\* ------------------------------------------------------------------- state
VARIABLES
    imported,    \* the module the program uses: "wasisocket" or "socket_patch"
    _wasisocket, \* the provider module's attributes: who defined each
    sys_modules, \* sys.modules: the module registered under '_socket'
    _default_timeout,  \* the module's global of that name
    sock,        \* the fields of the Socket object: family, socktype, _fd, _connected
    obj,         \* "none": no object; "live": the caller holds it; "garbage": only
                 \* the finalizer can still reach it
    inWith,      \* the object is the subject of a with statement
    pc,          \* "idle", or "sendall" inside the loop of sendall
    data,        \* the argument of send or sendall
    total_sent,  \* sendall's local
    data_len,    \* sendall's local
    op,          \* the operation run last
    calls,       \* the provider calls that operation made, in order
    exc,         \* the exception it raised, or NoExc
    ret,         \* the value it returned
    nextFd,      \* provider: the descriptor the next successful sock_open issues
    closeCalls,  \* provider: how often sock_close was called with each descriptor
    wire,        \* provider: the bytes sock_send accepted in the last send/sendall
    source,      \* compile_library: the content of each file of the source tree
    pyc,         \* compile_library: whether the compiled output of a file exists
    manifest,    \* compile_library: .manifest.json, the hash recorded for each file
    last,        \* compile_library: the last run of compile_lib and what it returned
    edited       \* compile_library: whether a source file was edited since that run

vars == <<imported, _wasisocket, sys_modules, _default_timeout, sock, obj, inWith, pc, data,
          total_sent, data_len, op, calls, exc, ret, nextFd, closeCalls, wire,
          source, pyc, manifest, last, edited>>

\* the state of compile_library
lib == <<source, pyc, manifest, last, edited>>

NoData == [type |-> "bytes", val |-> <<>>]
NoSock ==
    [cls |-> "Socket", family |-> AF_INET, socktype |-> SOCK_STREAM,
     _fd |-> None, _connected |-> FALSE]

\* the provider's count of sock_close calls after the calls cs
Released(cc, cs) ==
    [f \in DOMAIN cc |->
        cc[f] + Cardinality({i \in 1..Len(cs) : cs[i].prim = "sock_close" /\ cs[i].fd = f})]

\* the bytes the provider accepted: the first n of those handed to sock_send
Accepted(cs) ==
    IF cs # <<>> /\ cs[Len(cs)].prim = "sock_send" /\ cs[Len(cs)].ok
    THEN SubSeq(cs[Len(cs)].bytes, 1, cs[Len(cs)].n)
    ELSE <<>>

\* the attributes socket_patch sets on the provider module
CompatAttrs ==
    {"error", "timeout", "gaierror", "herror",
     "SOL_SOCKET", "SO_REUSEADDR", "SO_KEEPALIVE", "IPPROTO_TCP", "TCP_NODELAY",
     "getdefaulttimeout", "setdefaulttimeout", "getaddrinfo", "has_ipv6"}
Attrs == {"socket"} \cup CompatAttrs

\* everything but the module imported
InitRest ==
    /\ source = [f \in Files |-> "v1"]
    /\ pyc = [f \in Files |-> FALSE]
    /\ manifest = [f \in Files |-> NoHash]
    /\ last = NoRun
    /\ edited = FALSE
    /\ _wasisocket = [a \in Attrs |-> "absent"]
    /\ sys_modules = [_socket |-> "_socket"]
    /\ sock = NoSock
    /\ obj = "none"
    /\ inWith = FALSE
    /\ pc = "idle"
    /\ data = NoData
    /\ total_sent = 0
    /\ data_len = 0
    /\ op = "none"
    /\ calls = <<>>
    /\ exc = NoExc
    /\ ret = RNone
    /\ nextFd = 1
    /\ closeCalls = [f \in Fds \cup {None} |-> 0]
    /\ wire = <<>>

Init == imported = "wasisocket" /\ _default_timeout = _GLOBAL_DEFAULT_TIMEOUT /\ InitRest

\* the outcome r of operation name becomes the state
Apply(name, r) ==
    /\ op' = name
    /\ sock' = r.self
    /\ calls' = r.calls
    /\ exc' = r.exc
    /\ ret' = r.ret
    /\ closeCalls' = Released(closeCalls, r.calls)

\* sendall's frame is gone once another operation runs
NoFrame ==
    /\ data' = NoData
    /\ total_sent' = 0
    /\ data_len' = 0
    /\ wire' = <<>>

\* sock = Socket(family, socktype)
Construct(family, socktype, ok) ==
    /\ imported = "wasisocket"
    /\ pc = "idle" /\ obj = "none" /\ nextFd <= MaxSockets
    /\ \E o \in {p \in OpenOuts(nextFd) : p.ok = ok} :
        Apply("Socket", __init__(family, socktype, o))
    /\ obj' = IF ok THEN "live" ELSE "garbage"
    /\ nextFd' = IF ok THEN nextFd + 1 ELSE nextFd
    /\ NoFrame
    /\ UNCHANGED <<lib, imported, _wasisocket, sys_modules, _default_timeout, inWith, pc>>

\* sock = create_connection(address, timeout)
CreateConnection(address, timeout, ok, r, c, x) ==
    /\ imported = "wasisocket"
    /\ pc = "idle" /\ obj = "none" /\ nextFd <= MaxSockets
    /\ \E o \in {p \in OpenOuts(nextFd) : p.ok = ok} :
        LET res == create_connection(address, timeout, o, r, c, x)
        IN /\ Apply("create_connection", res)
           /\ obj' = IF res.exc = NoExc THEN "live" ELSE "garbage"
    /\ nextFd' = IF ok THEN nextFd + 1 ELSE nextFd
    /\ NoFrame
    /\ UNCHANGED <<lib, imported, _wasisocket, sys_modules, _default_timeout, inWith, pc>>

\* sock.connect(address)
Connect(address, r, c) ==
    /\ pc = "idle" /\ obj = "live"
    /\ Apply("connect", IF sock.cls = "Socket" THEN connect(sock, address, r, c)
                        ELSE socket_connect(sock, address, r, c))
    /\ NoFrame
    /\ UNCHANGED <<lib, imported, _wasisocket, sys_modules, _default_timeout, obj, inWith, pc, nextFd>>

\* sock.send(d)
Send(d, o) ==
    /\ pc = "idle" /\ obj = "live" /\ sock.cls = "Socket"
    /\ LET r == send(sock, d, o)
       IN /\ Apply("send", r)
          /\ wire' = Accepted(r.calls)
    /\ data' = d /\ total_sent' = 0 /\ data_len' = 0
    /\ UNCHANGED <<lib, imported, _wasisocket, sys_modules, _default_timeout, obj, inWith, pc, nextFd>>

\* sock.recv(bufsize)
Recv(bufsize, o) ==
    /\ pc = "idle" /\ obj = "live" /\ sock.cls = "Socket"
    /\ Apply("recv", recv(sock, bufsize, o))
    /\ NoFrame
    /\ UNCHANGED <<lib, imported, _wasisocket, sys_modules, _default_timeout, obj, inWith, pc, nextFd>>

\* sock.close()
Close(o) ==
    /\ pc = "idle" /\ obj = "live"
    /\ sock._fd # None => closeCalls[sock._fd] < MaxCloseCalls
    /\ Apply("close", IF sock.cls = "Socket" THEN close(sock, o) ELSE socket_close(sock, o))
    /\ NoFrame
    /\ UNCHANGED <<lib, imported, _wasisocket, sys_modules, _default_timeout, obj, inWith, pc, nextFd>>

\* sock.sendall(d): the two locals are set and the loop condition is tested;
\* with nothing to send the method returns at once
SendAll(d) ==
    /\ pc = "idle" /\ obj = "live"
    /\ op' = "sendall"
    /\ data' = d
    /\ total_sent' = 0
    /\ data_len' = Len(d.val)
    /\ pc' = IF 0 < Len(d.val) THEN "sendall" ELSE "idle"
    /\ calls' = <<>> /\ exc' = NoExc /\ ret' = RNone /\ wire' = <<>>
    /\ UNCHANGED <<lib, imported, _wasisocket, sys_modules, _default_timeout, sock, obj, inWith, nextFd, closeCalls>>

\* one pass of sendall's loop, and the test of its condition that follows
SendAllLoop ==
    /\ pc = "sendall" /\ total_sent < data_len
    /\ \E o \in SendOuts(Slice(data, total_sent).val) :
       LET b == IF sock.cls = "Socket" THEN sendall_body(sock, data, total_sent, o)
                ELSE socket_sendall_body(sock, data, total_sent, o)
       IN /\ sock' = b.res.self
          /\ calls' = calls \o b.res.calls
          /\ exc' = b.res.exc
          /\ ret' = b.res.ret
          /\ closeCalls' = Released(closeCalls, b.res.calls)
          /\ total_sent' = b.total_sent
          /\ wire' = wire \o Accepted(b.res.calls)
          /\ pc' = IF b.res.exc = NoExc /\ b.total_sent < data_len THEN "sendall" ELSE "idle"
    /\ UNCHANGED <<lib, imported, _wasisocket, sys_modules, _default_timeout, obj, inWith, data, data_len, op, nextFd>>

\* with sock: ... entered; __enter__ returns self
Enter ==
    /\ pc = "idle" /\ obj = "live" /\ sock.cls = "Socket" /\ ~inWith
    /\ inWith' = TRUE
    /\ op' = "__enter__"
    /\ calls' = <<>> /\ exc' = NoExc /\ ret' = RSocket
    /\ NoFrame
    /\ UNCHANGED <<lib, imported, _wasisocket, sys_modules, _default_timeout, sock, obj, pc, nextFd, closeCalls>>

\* faulty __exit__: close() is called on the normal exit path only
__exit__on_success_only(self, raising, pending, o) ==
    IF raising THEN Result(self, <<>>, pending, RNone)
    ELSE LET z == close(self, o)
         IN Result(z.self, z.calls, z.exc, RNone)

\* Socket.__exit__(exc_type, exc_val, exc_tb): close(); it returns None, so an
\* exception of the body (raising) goes on propagating
__exit__(self, raising, pending, o) ==
    LET z == close(self, o)
    IN Result(z.self, z.calls, IF z.exc # NoExc THEN z.exc
                               ELSE IF raising THEN pending ELSE NoExc, RNone)

\* the with block is left, normally or by the exception the body's last
\* operation raised
Exit(raising, o) ==
    /\ pc = "idle" /\ obj = "live" /\ inWith
    /\ raising => exc # NoExc
    /\ Apply("__exit__", __exit__(sock, raising, exc, o))
    /\ inWith' = FALSE
    /\ NoFrame
    /\ UNCHANGED <<lib, imported, _wasisocket, sys_modules, _default_timeout, obj, pc, nextFd>>

\* Socket.__del__(): close()
__del__(self, o) == close(self, o)

\* the last reference is gone and the finalizer runs
Finalize(o) ==
    /\ pc = "idle" /\ obj \in {"live", "garbage"} /\ sock.cls = "Socket" /\ ~inWith
    /\ Apply("__del__", __del__(sock, o))
    /\ obj' = "none"
    /\ NoFrame
    /\ UNCHANGED <<lib, imported, _wasisocket, sys_modules, _default_timeout, inWith, pc, nextFd>>

Next ==
    \/ \E k \in Kinds, ok \in BOOLEAN : Construct(k[1], k[2], ok)
    \/ \E a \in Addresses, t \in Timeouts, ok \in BOOLEAN, r \in ResolveOuts,
          c \in OkOuts, x \in OkOuts : CreateConnection(a, t, ok, r, c, x)
    \/ \E a \in Addresses, r \in ResolveOuts, c \in OkOuts : Connect(a, r, c)
    \/ \E d \in Datas : \E o \in SendOuts(d.val) : Send(d, o)
    \/ \E n \in 0..MaxBuf : \E o \in RecvOuts(n) : Recv(n, o)
    \/ \E o \in OkOuts : Close(o)
    \/ \E d \in Datas : SendAll(d)
    \/ SendAllLoop
    \/ Enter
    \/ \E b \in BOOLEAN, o \in OkOuts : Exit(b, o)
    \/ \E o \in OkOuts : Finalize(o)

Spec == Init /\ [][Next]_vars

\* s = socket(family): an object of the wrapper class is constructed; when
\* sock_open fails no object remains
PatchConstruct(family, ok) ==
    /\ imported = "socket_patch"
    /\ pc = "idle" /\ obj = "none" /\ nextFd <= MaxSockets
    /\ \E o \in {p \in OpenOuts(nextFd) : p.ok = ok} :
        Apply("socket", socket_init(family, -1, -1, None, o))
    /\ obj' = IF ok THEN "live" ELSE "none"
    /\ nextFd' = IF ok THEN nextFd + 1 ELSE nextFd
    /\ NoFrame
    /\ UNCHANGED <<lib, imported, _wasisocket, sys_modules, _default_timeout, inWith, pc>>

\* the last reference to a closed wrapper object is gone; the class has no
\* finalizer
PatchDrop ==
    /\ pc = "idle" /\ obj = "live" /\ sock.cls = "socket" /\ sock._fd = None
    /\ obj' = "none"
    /\ op' = "del"
    /\ calls' = <<>> /\ exc' = NoExc /\ ret' = RNone
    /\ NoFrame
    /\ UNCHANGED <<lib, imported, _wasisocket, sys_modules, _default_timeout, sock, inWith, pc, nextFd, closeCalls>>

PatchNext ==
    \/ \E f \in {-1, AF_INET6}, ok \in BOOLEAN : PatchConstruct(f, ok)
    \/ PatchDrop

\* a program that uses either module
BothInit ==
    /\ imported \in {"wasisocket", "socket_patch"}
    /\ _default_timeout = IF imported = "wasisocket" THEN _GLOBAL_DEFAULT_TIMEOUT ELSE None
    /\ InitRest

BothSpec == BothInit /\ [][Next \/ PatchNext]_vars

\* ------------------------------------------- the wrapper class on its own
\* s.send(d)
PatchSend(d, o) ==
    /\ pc = "idle" /\ obj = "live" /\ sock.cls = "socket"
    /\ LET r == socket_send(sock, d, o)
       IN /\ Apply("send", r)
          /\ wire' = Accepted(r.calls)
    /\ data' = d /\ total_sent' = 0 /\ data_len' = 0
    /\ UNCHANGED <<lib, imported, _wasisocket, sys_modules, _default_timeout, obj, inWith, pc, nextFd>>

\* s.recv(bufsize)
PatchRecv(bufsize, o) ==
    /\ pc = "idle" /\ obj = "live" /\ sock.cls = "socket"
    /\ Apply("recv", socket_recv(sock, bufsize, o))
    /\ NoFrame
    /\ UNCHANGED <<lib, imported, _wasisocket, sys_modules, _default_timeout, obj, inWith, pc, nextFd>>

\* s.recvfrom(bufsize)
PatchRecvFrom(bufsize, o) ==
    /\ pc = "idle" /\ obj = "live" /\ sock.cls = "socket"
    /\ Apply("recvfrom", socket_recvfrom(sock, bufsize, o))
    /\ NoFrame
    /\ UNCHANGED <<lib, imported, _wasisocket, sys_modules, _default_timeout, obj, inWith, pc, nextFd>>

\* s.recv_into(buffer, nbytes)
PatchRecvInto(buffer, nbytes, o) ==
    /\ pc = "idle" /\ obj = "live" /\ sock.cls = "socket"
    /\ Apply("recv_into", socket_recv_into(sock, buffer, nbytes, o))
    /\ NoFrame
    /\ UNCHANGED <<lib, imported, _wasisocket, sys_modules, _default_timeout, obj, inWith, pc, nextFd>>

\* s.getsockopt(level, optname)
PatchGetsockopt(level, optname) ==
    /\ pc = "idle" /\ obj = "live" /\ sock.cls = "socket"
    /\ Apply("getsockopt", socket_getsockopt(sock, level, optname))
    /\ NoFrame
    /\ UNCHANGED <<lib, imported, _wasisocket, sys_modules, _default_timeout, obj, inWith, pc, nextFd>>

\* s.setsockopt(level, optname, value)
PatchSetsockopt(level, optname, value) ==
    /\ pc = "idle" /\ obj = "live" /\ sock.cls = "socket"
    /\ Apply("setsockopt", socket_setsockopt(sock, level, optname, value))
    /\ NoFrame
    /\ UNCHANGED <<lib, imported, _wasisocket, sys_modules, _default_timeout, obj, inWith, pc, nextFd>>

\* s.setblocking(flag)
PatchSetblocking(flag) ==
    /\ pc = "idle" /\ obj = "live" /\ sock.cls = "socket"
    /\ Apply("setblocking", socket_setblocking(sock, flag))
    /\ NoFrame
    /\ UNCHANGED <<lib, imported, _wasisocket, sys_modules, _default_timeout, obj, inWith, pc, nextFd>>

\* s.settimeout(value)
PatchSettimeout(value) ==
    /\ pc = "idle" /\ obj = "live" /\ sock.cls = "socket"
    /\ Apply("settimeout", socket_settimeout(sock, value))
    /\ NoFrame
    /\ UNCHANGED <<lib, imported, _wasisocket, sys_modules, _default_timeout, obj, inWith, pc, nextFd>>

\* s.gettimeout()
PatchGettimeout ==
    /\ pc = "idle" /\ obj = "live" /\ sock.cls = "socket"
    /\ Apply("gettimeout", socket_gettimeout(sock))
    /\ NoFrame
    /\ UNCHANGED <<lib, imported, _wasisocket, sys_modules, _default_timeout, obj, inWith, pc, nextFd>>

\* s.shutdown(how)
PatchShutdown(how) ==
    /\ pc = "idle" /\ obj = "live" /\ sock.cls = "socket"
    /\ Apply("shutdown", socket_shutdown(sock, how))
    /\ NoFrame
    /\ UNCHANGED <<lib, imported, _wasisocket, sys_modules, _default_timeout, obj, inWith, pc, nextFd>>

\* s.connect_ex(address)
PatchConnectEx(address, r, c, errno) ==
    /\ pc = "idle" /\ obj = "live" /\ sock.cls = "socket"
    /\ Apply("connect_ex", socket_connect_ex(sock, address, r, c, errno))
    /\ NoFrame
    /\ UNCHANGED <<lib, imported, _wasisocket, sys_modules, _default_timeout, obj, inWith, pc, nextFd>>

\* the buffers handed to recv_into: bytearray(k)
Buffers == {[i \in 1..k |-> 0] : k \in 0..MaxBuf}
\* the (level, optname) pairs a caller names
Options == {<<SOL_SOCKET, SO_KEEPALIVE>>, <<IPPROTO_TCP, TCP_NODELAY>>}

\* s = socket(): the one object of the run
WrapperConstruct(ok) == nextFd = 1 /\ PatchConstruct(-1, ok)

WrapperNext ==
    \/ \E ok \in BOOLEAN : WrapperConstruct(ok)
    \/ \E a \in Addresses, r \in ResolveOuts, c \in OkOuts : Connect(a, r, c)
    \/ \E a \in Addresses, r \in ResolveOuts, c \in OkOuts, e \in Errnos :
          PatchConnectEx(a, r, c, e)
    \/ \E o \in OkOuts : Close(o)
    \/ \E d \in Datas : SendAll(d)
    \/ SendAllLoop
    \/ \E d \in Datas : \E o \in SendOuts(d.val) : PatchSend(d, o)
    \/ \E n \in 0..MaxBuf : \E o \in RecvOuts(n) : PatchRecv(n, o)
    \/ \E n \in 0..MaxBuf : \E o \in RecvOuts(n) : PatchRecvFrom(n, o)
    \/ \E b \in Buffers, n \in 0..MaxBuf :
          \E o \in RecvOuts(IF n = 0 THEN Len(b) ELSE n) : PatchRecvInto(b, n, o)
    \/ \E k \in Options : PatchGetsockopt(k[1], k[2])
    \/ \E k \in Options, v \in {0, 1} : PatchSetsockopt(k[1], k[2], v)
    \/ \E flag \in BOOLEAN : PatchSetblocking(flag)
    \/ \E t \in Timeouts : PatchSettimeout(t)
    \/ PatchGettimeout
    \/ \E how \in 0..2 : PatchShutdown(how)

\* a program that uses one object of the wrapper class socket of socket_patch
WrapperInit == imported = "socket_patch" /\ _default_timeout = None /\ InitRest

WrapperSpec == WrapperInit /\ [][WrapperNext]_vars

\* ------------------------------------------------------ the default timeout
\* setdefaulttimeout(timeout)
SetDefaultTimeout(timeout) ==
    /\ pc = "idle"
    /\ _default_timeout' = setdefaulttimeout(_default_timeout, timeout)
    /\ op' = "setdefaulttimeout"
    /\ calls' = <<>> /\ exc' = NoExc /\ ret' = RNone
    /\ NoFrame
    /\ UNCHANGED <<lib, imported, _wasisocket, sys_modules, sock, obj, inWith, pc, nextFd, closeCalls>>

\* getdefaulttimeout()
GetDefaultTimeout ==
    /\ pc = "idle"
    /\ op' = "getdefaulttimeout"
    /\ calls' = <<>> /\ exc' = NoExc /\ ret' = getdefaulttimeout(_default_timeout)
    /\ NoFrame
    /\ UNCHANGED <<lib, imported, _wasisocket, sys_modules, _default_timeout, sock, obj, inWith, pc, nextFd, closeCalls>>

TimeoutNext ==
    \/ \E t \in Timeouts : SetDefaultTimeout(t)
    \/ GetDefaultTimeout
    \/ \E k \in Kinds, ok \in BOOLEAN : Construct(k[1], k[2], ok)
    \/ \E a \in Addresses, t \in Timeouts, ok \in BOOLEAN, r \in ResolveOuts,
          c \in OkOuts, x \in OkOuts : CreateConnection(a, t, ok, r, c, x)
    \/ \E a \in Addresses, r \in ResolveOuts, c \in OkOuts : Connect(a, r, c)
    \/ \E d \in Datas : \E o \in SendOuts(d.val) : Send(d, o)
    \/ \E n \in 0..MaxBuf : \E o \in RecvOuts(n) : Recv(n, o)
    \/ \E o \in OkOuts : Close(o)
    \/ Enter
    \/ \E b \in BOOLEAN, o \in OkOuts : Exit(b, o)
    \/ \E o \in OkOuts : Finalize(o)

\* a program that uses wasisocket and its default-timeout functions (sendall,
\* a loop of send, is left to Spec)
TimeoutSpec == Init /\ [][TimeoutNext]_vars

\* ------------------------------------------------- loading socket_patch
\* import socket_patch: the module-level statements run once
LoadPatch ==
    /\ imported = "none"
    /\ imported' = "socket_patch"
    /\ _wasisocket' = patch_attributes(_wasisocket)
    /\ sys_modules' = [sys_modules EXCEPT !._socket = "_wasisocket"]
    /\ _default_timeout' =
          IF _wasisocket["getdefaulttimeout"] = "absent" THEN None ELSE _default_timeout
    /\ op' = "import"
    /\ UNCHANGED <<lib, sock, obj, inWith, pc, data, total_sent, data_len, calls, exc, ret,
                   nextFd, closeCalls, wire>>

\* before the import: the provider module defines any of the attributes
LoadInit ==
    /\ imported = "none"
    /\ _default_timeout = None
    /\ sock = NoSock /\ obj = "none" /\ inWith = FALSE /\ pc = "idle"
    /\ data = NoData /\ total_sent = 0 /\ data_len = 0
    /\ op = "none" /\ calls = <<>> /\ exc = NoExc /\ ret = RNone
    /\ nextFd = 1 /\ closeCalls = [f \in Fds \cup {None} |-> 0] /\ wire = <<>>
    /\ _wasisocket \in [Attrs -> {"absent", "provider"}]
    /\ sys_modules = [_socket |-> "_socket"]
    /\ source = [f \in Files |-> "v1"] /\ pyc = [f \in Files |-> FALSE]
    /\ manifest = [f \in Files |-> NoHash] /\ last = NoRun /\ edited = FALSE

LoadNext == LoadPatch

LoadSpec == LoadInit /\ [][LoadNext]_vars

\* ------------------------------------------------- runs of compile_library
\* python3 compile_library.py <dir> [--force]: one run of compile_lib.  last
\* keeps what the run did, whether the sources were unchanged since the run
\* before, and of that run (was) its force flag, its compiled and failed
\* files, and the files that were up to date (hash recorded, output present)
\* when this run began
CompileLib(force, ok) ==
    /\ last.n < MaxRuns
    /\ LET r == compile_lib(source, pyc, manifest, force, ok)
       IN /\ pyc' = r.pyc
          /\ manifest' = r.manifest
          /\ last' = [n |-> last.n + 1, force |-> force,
                      compiled |-> r.compiled, skipped |-> r.skipped, failed |-> r.failed,
                      ret |-> r.ret, unchanged |-> (last.n > 0 /\ ~edited),
                      was |-> [force |-> last.force, compiled |-> last.compiled,
                               failed |-> last.failed,
                               current |-> {f \in Files :
                                   UpToDate(f, source, pyc, manifest, FALSE)}]]
    /\ edited' = FALSE
    /\ UNCHANGED <<source, imported, _wasisocket, sys_modules, _default_timeout, sock, obj,
                   inWith, pc, data, total_sent, data_len, op, calls, exc, ret, nextFd,
                   closeCalls, wire>>

\* a source file is edited between two runs
EditSource(f, content) ==
    /\ source[f] # content
    /\ source' = [source EXCEPT ![f] = content]
    /\ edited' = TRUE
    /\ UNCHANGED <<pyc, manifest, last, imported, _wasisocket, sys_modules, _default_timeout,
                   sock, obj, inWith, pc, data, total_sent, data_len, op, calls, exc, ret,
                   nextFd, closeCalls, wire>>

\* before the first run: any sources, any outputs and any manifest left by
\* earlier runs
CompileInit ==
    /\ source \in {s \in [Files -> Contents] : \A f \in Files : Visited(f) \/ s[f] = "v1"}
    /\ pyc \in {p \in [Files -> BOOLEAN] : \A f \in Files : p[f] => Visited(f)}
    /\ manifest \in {h \in [Files -> Hashes \cup {NoHash}] :
                        \A f \in Files : h[f] # NoHash => Visited(f)}
    /\ last = NoRun
    /\ edited = FALSE
    /\ imported = "none"
    /\ _default_timeout = None
    /\ _wasisocket = [a \in Attrs |-> "absent"]
    /\ sys_modules = [_socket |-> "_socket"]
    /\ sock = NoSock /\ obj = "none" /\ inWith = FALSE /\ pc = "idle"
    /\ data = NoData /\ total_sent = 0 /\ data_len = 0
    /\ op = "none" /\ calls = <<>> /\ exc = NoExc /\ ret = RNone
    /\ nextFd = 1 /\ closeCalls = [f \in Fds \cup {None} |-> 0] /\ wire = <<>>

CompileNext ==
    \/ \E force \in BOOLEAN, ok \in [{f \in Files : Visited(f)} -> BOOLEAN] :
          CompileLib(force, ok)
    \/ \E f \in Files, c \in Contents : EditSource(f, c)

CompileSpec == CompileInit /\ [][CompileNext]_vars

\* ------------------------------------- one connection over a provider whose
\* primitives all succeed: Socket(), connect, sendall, recv, close, in this
\* order; calls holds the provider calls of the whole run
Run(name, r) ==
    /\ op' = name
    /\ sock' = r.self
    /\ calls' = calls \o r.calls
    /\ exc' = r.exc
    /\ ret' = r.ret
    /\ closeCalls' = Released(closeCalls, r.calls)

\* sock = Socket(AF_INET, SOCK_STREAM); sock_open issues a descriptor
RunOpen ==
    /\ op = "none"
    /\ Run("Socket", __init__(AF_INET, SOCK_STREAM, [ok |-> TRUE, fd |-> nextFd]))
    /\ obj' = "live"
    /\ nextFd' = nextFd + 1
    /\ UNCHANGED <<lib, imported, _wasisocket, sys_modules, _default_timeout, inWith, pc, data, total_sent, data_len, wire>>

\* sock.connect(address); the resolver returns one IPv4 candidate and
\* sock_connect succeeds
RunConnect(address, candidate) ==
    /\ op = "Socket"
    /\ candidate[1] = AF_INET
    /\ Run("connect", connect(sock, address, [ok |-> TRUE, addrs |-> <<candidate>>],
                              [ok |-> TRUE]))
    /\ UNCHANGED <<lib, imported, _wasisocket, sys_modules, _default_timeout, obj, inWith, pc, data, total_sent, data_len, wire, nextFd>>

\* sock.sendall(d) with byte-like d: the locals are set, the loop is entered
\* unless d is empty
RunSendAll(d) ==
    /\ op = "connect"
    /\ d.type \in {"bytes", "bytearray"}
    /\ op' = "sendall"
    /\ data' = d
    /\ total_sent' = 0
    /\ data_len' = Len(d.val)
    /\ pc' = IF 0 < Len(d.val) THEN "sendall" ELSE "idle"
    /\ exc' = NoExc /\ ret' = RNone /\ wire' = <<>>
    /\ UNCHANGED <<lib, imported, _wasisocket, sys_modules, _default_timeout, sock, obj, inWith, calls, nextFd, closeCalls>>

\* one pass of sendall's loop; sock_send accepts n >= 1 of the bytes handed
RunSendAllLoop(n) ==
    /\ op = "sendall" /\ pc = "sendall" /\ total_sent < data_len
    /\ n \in 1..Len(Slice(data, total_sent).val)
    /\ LET b == sendall_body(sock, data, total_sent, [ok |-> TRUE, n |-> n])
       IN /\ Run("sendall", b.res)
          /\ total_sent' = b.total_sent
          /\ wire' = wire \o Accepted(b.res.calls)
          /\ pc' = IF b.res.exc = NoExc /\ b.total_sent < data_len THEN "sendall" ELSE "idle"
    /\ UNCHANGED <<lib, imported, _wasisocket, sys_modules, _default_timeout, obj, inWith, data, data_len, nextFd>>

\* response = sock.recv(bufsize); sock_recv returns the non-empty bytes b
RunRecv(bufsize, b) ==
    /\ op = "sendall" /\ pc = "idle"
    /\ b # <<>> /\ Len(b) <= bufsize
    /\ Run("recv", recv(sock, bufsize, [ok |-> TRUE, data |-> b]))
    /\ UNCHANGED <<lib, imported, _wasisocket, sys_modules, _default_timeout, obj, inWith, pc, data, total_sent, data_len, wire, nextFd>>

\* sock.close(); sock_close succeeds
RunClose ==
    /\ op = "recv"
    /\ Run("close", close(sock, [ok |-> TRUE]))
    /\ UNCHANGED <<lib, imported, _wasisocket, sys_modules, _default_timeout, obj, inWith, pc, data, total_sent, data_len, wire, nextFd>>

RunNext ==
    \/ RunOpen
    \/ \E a \in Addresses, k \in Candidates : RunConnect(a, k)
    \/ \E d \in Datas : RunSendAll(d)
    \/ \E n \in 1..MaxLen : RunSendAllLoop(n)
    \/ \E b \in SeqsUpTo(Byte, MaxBuf) : RunRecv(MaxBuf, b)
    \/ RunClose

RunSpec == Init /\ [][RunNext]_vars

\* ------------------------------------------------------------- properties
\* the operations that end in Socket.close()
Closing == {"close", "__exit__", "__del__"}
\* the descriptors the provider has issued so far
Issued == 1..(nextFd - 1)

\* C1: for the one object, over every operation and provider outcome, the
\* state moves only Open -> Connected -> Closed or Open -> Closed: a Closed
\* socket stays Closed, and a Connected socket never becomes Open again.
C1_Lifecycle ==
    [][obj # "none" =>
          /\ State(sock) = "Closed" => State(sock') = "Closed"
          /\ State(sock) = "Connected" => State(sock') # "Open"]_vars

\* a socket that was closed and on which connect was tried afterwards
C1_Witness ==
    /\ obj = "live" /\ op = "connect" /\ State(sock) = "Closed"
    /\ closeCalls[1] = 1

\* C2: sock_close is called exactly once for every descriptor sock_open
\* issued, however many close(), __exit__ and __del__ run: never twice,
\* never with None; and a close() on a Closed socket changes nothing, calls
\* nothing and raises nothing, so N calls leave what one call leaves.
C2_CloseOnce ==
    /\ [](/\ closeCalls[None] = 0
          /\ \A f \in Fds :
                closeCalls[f] = IF f \in Issued /\ ~(obj # "none" /\ sock._fd = f)
                                THEN 1 ELSE 0)
    /\ [][op' \in Closing =>
            /\ State(sock') = "Closed" /\ sock'._fd = None
            /\ op' = "close" => exc' = NoExc
            /\ State(sock) = "Closed" => sock' = sock /\ calls' = <<>>]_vars

\* close() called a second time on the same object
C2_Witness ==
    /\ obj = "live" /\ op = "close" /\ calls = <<>> /\ exc = NoExc
    /\ State(sock) = "Closed" /\ closeCalls[1] = 1

\* C3: close() never raises: also when sock_close fails the socket ends
\* Closed, without descriptor and with the connected flag cleared; and an
\* object never holds a descriptor that was handed to sock_close, nor has
\* the connected flag set without a descriptor.
C3_CloseNeverRaises ==
    /\ op = "close" => exc = NoExc /\ sock._fd = None /\ ~sock._connected
    /\ op = "__del__" => sock._fd = None /\ ~sock._connected
    /\ obj # "none" =>
          /\ sock._fd # None => closeCalls[sock._fd] = 0
          /\ sock._fd = None => ~sock._connected

\* close() of a connected socket during which sock_close failed
C3_Witness ==
    /\ op = "close" /\ Len(calls) = 1 /\ calls[1].prim = "sock_close" /\ ~calls[1].ok
    /\ exc = NoExc /\ State(sock) = "Closed"

\* C4: send and recv on a socket that is Open (never connected) or Closed
\* raise SocketError, call no provider primitive and leave the object, and
\* with it state and descriptor, as it was.
C4_SendRecvNeedConnected ==
    [][op' \in {"send", "recv"} /\ State(sock) \in {"Open", "Closed"} =>
          /\ IsInstance(exc'.kind, SocketError)
          /\ calls' = <<>>
          /\ sock' = sock
          /\ closeCalls' = closeCalls]_vars

\* send on a socket that was closed before (the test's "send on closed socket")
C4_Witness ==
    /\ obj = "live" /\ op = "send" /\ State(sock) = "Closed"
    /\ exc.kind = SocketError /\ calls = <<>> /\ closeCalls[1] = 1

\* C5: connect on a socket that is Connected or Closed raises SocketError,
\* calls neither sock_resolve nor sock_connect, and leaves the state as it was.
C5_ConnectNeedsOpen ==
    [][op' = "connect" /\ State(sock) \in {"Connected", "Closed"} =>
          /\ IsInstance(exc'.kind, SocketError)
          /\ calls' = <<>>
          /\ sock' = sock]_vars

\* connect on a socket that is already connected
C5_Witness ==
    /\ obj = "live" /\ op = "connect" /\ State(sock) = "Connected"
    /\ exc.kind = SocketError /\ calls = <<>>

\* C6: when sock_resolve returns an empty list, connect raises gaierror, does
\* not call sock_connect and leaves the socket Open with its descriptor.
C6_NoAddress ==
    [][/\ op' = "connect" /\ calls' # <<>>
       /\ calls'[1].prim = "sock_resolve" /\ calls'[1].ok /\ calls'[1].n = 0
       => /\ exc'.kind = "gaierror"
          /\ Len(calls') = 1
          /\ sock' = sock
          /\ State(sock') = "Open" /\ sock'._fd # None]_vars

\* a connect during which the resolver returned no candidate
C6_Witness ==
    /\ obj = "live" /\ op = "connect" /\ Len(calls) = 1
    /\ calls[1].prim = "sock_resolve" /\ calls[1].ok /\ calls[1].n = 0
    /\ exc.kind = "gaierror" /\ State(sock) = "Open"

\* the bytes the provider reported as written by the first k calls
RECURSIVE SumN(_, _)
SumN(cs, k) == IF k = 0 THEN 0 ELSE cs[k].n + SumN(cs, k - 1)

\* every sock_send so far succeeded with a count between 1 and the number of
\* bytes unsent at that call
AllProgress ==
    \A i \in 1..Len(calls) :
        /\ calls[i].ok
        /\ 1 <= calls[i].n
        /\ calls[i].n <= data_len - SumN(calls, i - 1)

\* C7: sendall of a payload on a Connected socket, while every sock_send
\* returns between 1 and the number of unsent bytes: at most len(payload)
\* calls are made, each is handed exactly the unsent suffix, the bytes accepted
\* so far are the prefix of the payload of length total_sent, the loop goes on
\* exactly while bytes are unsent, and it ends without exception with the
\* accepted bytes equal to the payload.  Holds for Socket.sendall and for the
\* wrapper's sendall.
C7_SendAllDelivers ==
    (/\ op = "sendall" /\ State(sock) = "Connected"
     /\ data.type \in {"bytes", "bytearray"} /\ AllProgress)
    => /\ Len(calls) <= data_len
       /\ \A i \in 1..Len(calls) :
            /\ calls[i].prim = "sock_send" /\ calls[i].fd = sock._fd
            /\ calls[i].bytes = SubSeq(data.val, SumN(calls, i - 1) + 1, data_len)
       /\ total_sent = SumN(calls, Len(calls))
       /\ wire = SubSeq(data.val, 1, total_sent)
       /\ exc = NoExc
       /\ (pc = "sendall") = (total_sent < data_len)
       /\ pc = "idle" => wire = data.val /\ ret = RNone /\ total_sent = data_len

\* a sendall that needed more than one sock_send and delivered a payload of
\* two different bytes
C7_Witness ==
    /\ op = "sendall" /\ pc = "idle" /\ exc = NoExc /\ State(sock) = "Connected"
    /\ Len(calls) >= 2 /\ AllProgress
    /\ data_len >= 2 /\ data.val[1] # data.val[2]
    /\ wire = data.val

\* the socket error of each module: wasisocket's SocketError, and OSError
\* (socket_patch sets _wasisocket.error = OSError) for the wrapper class
ErrorClass(cls) == IF cls = "Socket" THEN SocketError ELSE "OSError"

\* C8: as soon as a sock_send inside sendall returns 0 the method raises its
\* module's socket error: that call is the last one made, and bytes were
\* still unsent.  Holds for Socket.sendall and for the wrapper's sendall.
C8_ZeroIsFatal ==
    op = "sendall" =>
        \A i \in 1..Len(calls) :
            (calls[i].ok /\ calls[i].n = 0) =>
                /\ i = Len(calls)
                /\ pc = "idle"
                /\ IsInstance(exc.kind, ErrorClass(sock.cls))
                /\ total_sent < data_len

\* a sendall whose second sock_send returned 0 after a partial write
C8_Witness ==
    /\ op = "sendall" /\ Len(calls) = 2
    /\ calls[1].ok /\ calls[1].n = 1
    /\ calls[2].ok /\ calls[2].n = 0
    /\ exc.kind = ErrorClass(sock.cls) /\ pc = "idle"

\* create_connection opened a descriptor and then failed
FailedInConnect == op = "create_connection" /\ calls[1].ok /\ exc # NoExc

\* C9: when create_connection fails after sock_open succeeded, sock_close
\* has been called exactly once for the descriptor it opened, as its last
\* provider call, no issued descriptor is left open, the exception is the one
\* connect raised, and the finalizer that runs later calls nothing more.
C9_NoLeak ==
    /\ [](FailedInConnect =>
            /\ closeCalls[calls[1].n] = 1
            /\ \A f \in Issued : closeCalls[f] = 1
            /\ sock._fd = None
            /\ calls[Len(calls)].prim = "sock_close"
            /\ calls[Len(calls)].fd = calls[1].n
            /\ calls[2].prim = "sock_resolve"
            /\ IF ~calls[2].ok THEN exc = ProviderError /\ Len(calls) = 3
               ELSE IF calls[2].n = 0 THEN exc.kind = "gaierror" /\ Len(calls) = 3
               ELSE /\ Len(calls) = 4
                    /\ calls[3].prim = "sock_connect" /\ ~calls[3].ok
                    /\ exc.kind = "error" /\ exc.cause = "OSError")
    /\ [][FailedInConnect /\ op' = "__del__" =>
            calls' = <<>> /\ closeCalls' = closeCalls]_vars

\* a create_connection whose sock_connect failed
C9_Witness ==
    /\ FailedInConnect /\ Len(calls) = 4 /\ ~calls[3].ok
    /\ exc.kind = "error" /\ exc.cause = "OSError"
    /\ closeCalls[1] = 1 /\ obj = "garbage"

\* C10: every failure of a provider primitive other than sock_close reaches
\* the caller as a SocketError whose cause is the provider's error.
C10_FailuresWrapped ==
    \A i \in 1..Len(calls) :
        (~calls[i].ok /\ calls[i].prim # "sock_close") =>
            IsInstance(exc.kind, SocketError) /\ exc.cause = "OSError"

\* C11: connect uses the first candidate only.  Whenever sock_resolve returned
\* one or more candidates, connect called sock_connect exactly once, with the
\* socket's descriptor and the first candidate's family, port and address
\* bytes; when that call failed it raised SocketError with the provider's
\* error as cause and the socket is still Open on the same descriptor; when
\* it succeeded the socket is Connected on that descriptor.
C11_FirstCandidateOnly ==
    [][(op' = "connect" /\ calls' # <<>> /\ calls'[1].ok /\ calls'[1].n >= 1) =>
          /\ Len(calls') = 2
          /\ calls'[1].prim = "sock_resolve"
          /\ calls'[2].prim = "sock_connect"
          /\ calls'[2].fd = sock._fd
          /\ calls'[2].family = calls'[1].addrs[1][1]
          /\ calls'[2].port = calls'[1].addrs[1][2]
          /\ calls'[2].bytes = calls'[1].addrs[1][3]
          /\ sock'._fd = sock._fd /\ sock._fd # None
          /\ IF calls'[2].ok
             THEN State(sock') = "Connected" /\ exc' = NoExc
             ELSE /\ State(sock') = "Open"
                  /\ IsInstance(exc'.kind, SocketError) /\ exc'.cause = "OSError"]_vars

\* a connect whose resolver returned two different candidates and whose
\* sock_connect on the first of them failed
C11_Witness ==
    /\ op = "connect" /\ Len(calls) = 2
    /\ calls[1].n = 2 /\ calls[1].addrs[1] # calls[1].addrs[2]
    /\ calls[2].prim = "sock_connect" /\ ~calls[2].ok
    /\ calls[2].bytes = calls[1].addrs[1][3]
    /\ State(sock) = "Open" /\ exc.kind = SocketError

\* C12: an I/O error leaves the connection as it was.  When send, recv or a
\* pass of sendall on a Connected socket raises (the provider failed, or
\* sock_send returned 0 inside sendall), the object's fields are unchanged, so
\* the socket is still Connected on the same descriptor, and sock_close was
\* not called.
C12_ErrorKeepsConnection ==
    [][(State(sock) = "Connected" /\ op' \in {"send", "recv", "sendall"} /\ exc' # NoExc) =>
          /\ sock' = sock
          /\ State(sock') = "Connected"
          /\ closeCalls' = closeCalls
          /\ \A i \in 1..Len(calls') : calls'[i].prim \in {"sock_send", "sock_recv"}]_vars

\* a send on a Connected socket whose sock_send failed
C12_Witness ==
    /\ op = "send" /\ Len(calls) = 1 /\ ~calls[1].ok
    /\ exc.kind = SocketError /\ exc.cause = "OSError"
    /\ State(sock) = "Connected" /\ calls[1].fd = sock._fd

\* C13: leaving a with block closes the socket on every exit path.  After
\* __exit__, whether the body ended normally or by an exception, the socket is
\* Closed, sock_close has been called exactly once for the descriptor the
\* object held (and not at all if the body had closed it already), and an
\* exception of the body is still the pending exception.
C13_WithCloses ==
    [][\A b \in BOOLEAN :
          (\E o \in OkOuts : Exit(b, o)) =>
              /\ State(sock') = "Closed" /\ ~sock'._connected
              /\ ~inWith'
              /\ sock._fd # None =>
                    /\ closeCalls'[sock._fd] = 1
                    /\ Len(calls') = 1 /\ calls'[1].prim = "sock_close"
                    /\ calls'[1].fd = sock._fd
              /\ sock._fd = None => closeCalls' = closeCalls /\ calls' = <<>>
              /\ b => exc' = exc /\ exc' # NoExc
              /\ ~b => exc' = NoExc]_vars

\* a with block left by an exception of its body: the socket was closed by
\* __exit__ and the exception is still pending
C13_Witness ==
    /\ op = "__exit__" /\ ~inWith /\ State(sock) = "Closed"
    /\ Len(calls) = 1 /\ calls[1].prim = "sock_close" /\ closeCalls[calls[1].fd] = 1
    /\ exc # NoExc /\ IsInstance(exc.kind, SocketError)

\* the place of a provider primitive in one connection
Rank(prim) ==
    CASE prim = "sock_open" -> 1
      [] prim = "sock_resolve" -> 2
      [] prim = "sock_connect" -> 3
      [] prim = "sock_send" -> 4
      [] prim = "sock_recv" -> 5
      [] prim = "sock_close" -> 6
\* the operations of one connection, in the order the caller runs them
Stage(name) ==
    CASE name = "none" -> 0
      [] name = "Socket" -> 1
      [] name = "connect" -> 3
      [] name = "sendall" -> 4
      [] name = "recv" -> 5
      [] name = "close" -> 6

\* C14: over a provider whose primitives all succeed, one connection runs
\* without an exception: after Socket() the socket is Open on the descriptor
\* sock_open issued, after connect it is Connected, sendall returns normally
\* with the whole payload accepted, recv returns the provider's non-empty
\* bytes unchanged, after close the socket is Closed; and the provider calls
\* of the run are, in order, one sock_open, one sock_resolve, one
\* sock_connect, the sock_send calls, one sock_recv, one sock_close, all from
\* sock_connect on with the issued descriptor.
C14_HappyPath ==
    /\ exc = NoExc
    /\ \A i \in 1..Len(calls) :
          /\ calls[i].ok
          /\ Rank(calls[i].prim) <= Stage(op)
          /\ Rank(calls[i].prim) >= 3 => calls[i].fd = calls[1].n
          /\ \A j \in 1..Len(calls) :
                i < j => /\ Rank(calls[i].prim) <= Rank(calls[j].prim)
                         /\ Rank(calls[i].prim) = Rank(calls[j].prim)
                                => calls[i].prim = "sock_send"
    /\ \A k \in {1, 2, 3, 5, 6} :
          (k <= Stage(op)) => \E i \in 1..Len(calls) : Rank(calls[i].prim) = k
    /\ op = "Socket" => State(sock) = "Open" /\ sock._fd = calls[1].n
    /\ op \in {"connect", "sendall", "recv"} =>
          State(sock) = "Connected" /\ sock._fd = calls[1].n
    /\ (op = "sendall" /\ pc = "idle") =>
          /\ ret = RNone /\ wire = data.val
          /\ (data_len > 0) => calls[Len(calls)].prim = "sock_send"
    /\ op = "recv" =>
          /\ ret = RBytes(calls[Len(calls)].data) /\ ret.b # <<>>
          /\ calls[Len(calls)].bufsize = MaxBuf
    /\ op = "close" => State(sock) = "Closed" /\ closeCalls[calls[1].n] = 1

\* a whole connection: open, resolve, connect, two sends, recv, close
C14_Witness ==
    /\ op = "close" /\ State(sock) = "Closed" /\ exc = NoExc
    /\ Len(calls) = 7
    /\ calls[1].prim = "sock_open" /\ calls[2].prim = "sock_resolve"
    /\ calls[3].prim = "sock_connect"
    /\ calls[4].prim = "sock_send" /\ calls[5].prim = "sock_send"
    /\ calls[6].prim = "sock_recv" /\ Len(calls[6].data) = 2
    /\ calls[7].prim = "sock_close" /\ calls[7].fd = calls[1].n

\* C15: send(d) on a Connected socket.  With a text d it raises TypeError,
\* calls no provider primitive and leaves the socket Connected; with bytes or
\* a bytearray it calls sock_send exactly once, with the descriptor and the
\* bytes of d, and when that call succeeds it returns exactly the count the
\* provider reported, which may be less than len(d).
C15_SendOnce ==
    [][(op' = "send" /\ State(sock) = "Connected") =>
          /\ sock' = sock
          /\ IF data'.type = "str"
             THEN exc'.kind = "TypeError" /\ calls' = <<>>
             ELSE /\ Len(calls') = 1
                  /\ calls'[1].prim = "sock_send"
                  /\ calls'[1].fd = sock._fd
                  /\ calls'[1].bytes = data'.val
                  /\ calls'[1].ok => exc' = NoExc /\ ret' = RInt(calls'[1].n)]_vars

\* a send of three bytes of which the provider took one
C15_Witness ==
    /\ op = "send" /\ State(sock) = "Connected" /\ exc = NoExc
    /\ data.type = "bytes" /\ Len(data.val) = 3
    /\ Len(calls) = 1 /\ calls[1].ok
    /\ Len(calls[1].bytes) = 3 /\ calls[1].n = 1 /\ ret = RInt(1)

\* C16: timeouts are stored and never enforced.  getdefaulttimeout returns
\* the module's stored value, which setdefaulttimeout(t) sets to t and no
\* other operation changes; a create_connection step is the same step, with
\* the same provider calls, socket state, exception and result, whatever
\* timeout argument it is given; create_connection that returns normally
\* returns a Connected socket; and no operation raises the timeout error.
C16_TimeoutsInert ==
    /\ [](/\ exc.kind # "timeout"
          /\ (op = "create_connection" /\ exc = NoExc) =>
                State(sock) = "Connected" /\ ret = RSocket /\ obj = "live"
          /\ op = "getdefaulttimeout" => ret = RValue(_default_timeout))
    /\ [][/\ op' = "setdefaulttimeout" =>
                \A t \in Timeouts : SetDefaultTimeout(t) => _default_timeout' = t
          /\ op' # "setdefaulttimeout" => _default_timeout' = _default_timeout
          /\ op' \in {"setdefaulttimeout", "getdefaulttimeout"} =>
                sock' = sock /\ calls' = <<>> /\ exc' = NoExc /\ closeCalls' = closeCalls
          /\ op' = "create_connection" =>
                \A a \in Addresses, ok \in BOOLEAN, r \in ResolveOuts,
                   c \in OkOuts, x \in OkOuts :
                    (/\ ok = calls'[1].ok
                     /\ Len(calls') >= 2 => r.ok = calls'[2].ok /\ r.addrs = calls'[2].addrs
                     /\ \E t1 \in Timeouts : CreateConnection(a, t1, ok, r, c, x))
                        => \A t2 \in Timeouts : CreateConnection(a, t2, ok, r, c, x)]_vars

\* create_connection returned a Connected socket while the default timeout
\* stood at 30
C16_Witness ==
    /\ op = "create_connection" /\ exc = NoExc /\ State(sock) = "Connected"
    /\ _default_timeout = 30 /\ Len(calls) = 3

\* the wrapper's methods that are accepted and do nothing
Inert == {"setsockopt", "getsockopt", "settimeout", "gettimeout", "setblocking", "shutdown"}

\* C17: on the wrapper class, setsockopt, getsockopt, settimeout, gettimeout,
\* setblocking and shutdown, in every state of the object, call no provider
\* primitive, raise nothing and leave the descriptor and the connected flag
\* as they were; getsockopt returns 0, gettimeout returns None whatever
\* settimeout was given before, the others return None.
C17_InertOptions ==
    [][op' \in Inert =>
          /\ calls' = <<>>
          /\ exc' = NoExc
          /\ sock' = sock
          /\ closeCalls' = closeCalls
          /\ ret' = IF op' = "getsockopt" THEN RInt(0) ELSE RNone]_vars

\* shutdown on a connected wrapper socket: it is still connected
C17_Witness ==
    /\ op = "shutdown" /\ sock.cls = "socket" /\ State(sock) = "Connected"
    /\ calls = <<>> /\ exc = NoExc /\ ret = RNone

\* C18: close() on the wrapper class never raises and always ends with the
\* descriptor absent and the connected flag cleared, also when sock_close
\* fails; and a close() after a close() does not call sock_close again.
C18_WrapperCloseNeverRaises ==
    /\ [](op = "close" => exc = NoExc /\ sock._fd = None /\ ~sock._connected)
    /\ [][(op' = "close" /\ \E f \in Fds : closeCalls[f] >= 1) => calls' = <<>>]_vars

\* the provider primitives that need a usable, or connected, descriptor
DataPrims == {"sock_resolve", "sock_connect", "sock_send", "sock_recv"}

\* C19: on the wrapper class, connect, send, recv, recv_into, recvfrom and
\* sendall on a closed socket, and send and recv on a socket never connected,
\* raise without calling sock_resolve, sock_connect, sock_send or sock_recv;
\* the connected flag is never set while the descriptor is absent; and
\* connect on a connected socket raises and connects nothing.
C19_WrapperLifecycle ==
    /\ [](~(sock._connected /\ sock._fd = None))
    /\ [][(/\ op' \in {"connect", "send", "recv", "recv_into", "recvfrom", "sendall"}
           /\ pc' = "idle"
           /\ \/ State(sock) = "Closed"
              \/ op' \in {"send", "recv"} /\ State(sock) = "Open") =>
              /\ exc' # NoExc
              /\ \A i \in 1..Len(calls') : calls'[i].prim \notin DataPrims]_vars
    /\ [][(op' = "connect" /\ State(sock) = "Connected") =>
              /\ exc' # NoExc
              /\ sock' = sock
              /\ \A i \in 1..Len(calls') : calls'[i].prim \notin DataPrims]_vars

\* C20: sendall has the lifecycle precondition of send for every payload, the
\* empty one included: a sendall that ends on an Open or Closed socket has
\* raised SocketError and called no provider primitive, and a sendall returns
\* normally on a Connected socket only.
C20_SendAllNeedsConnected ==
    [][(op' = "sendall" /\ pc' = "idle") =>
          /\ State(sock) \in {"Open", "Closed"} =>
                /\ IsInstance(exc'.kind, SocketError)
                /\ calls' = <<>>
                /\ sock' = sock
          /\ exc' = NoExc => State(sock) = "Connected"]_vars

\* C21: connect_ex on the wrapper class never raises an OSError and reports
\* the outcome as an integer: 0 exactly when connect succeeded, the socket
\* then being connected, and a non-zero integer in every failure case, an
\* empty resolver result and a failed sock_connect included.
C21_ConnectExReportsInt ==
    op = "connect_ex" =>
        /\ ~IsInstance(exc.kind, "OSError")
        /\ exc = NoExc =>
              /\ ret.t = "int"
              /\ (ret.n = 0) <=> (/\ Len(calls) = 2
                                  /\ calls[2].prim = "sock_connect" /\ calls[2].ok)
              /\ ret.n = 0 => State(sock) = "Connected"

\* C22: loading socket_patch always sets the provider module's attribute
\* socket to the wrapper class and registers the provider module under
\* '_socket'; and each of the thirteen compatibility attributes is set only
\* when the provider module lacked that attribute: one the provider defines
\* is never overwritten.
C22_PatchAddsOnlyMissing ==
    [][op' = "import" =>
          /\ _wasisocket'["socket"] = "patch"
          /\ sys_modules'._socket = "_wasisocket"
          /\ \A a \in CompatAttrs :
                /\ _wasisocket[a] = "provider" => _wasisocket'[a] = "provider"
                /\ _wasisocket'[a] = "patch" => _wasisocket[a] = "absent"]_vars

\* the .py files a run visits
PyFiles == {f \in Files : Visited(f)}

\* what holds of every run of compile_lib: the three counts are the sizes of
\* three disjoint sets that cover the .py files; a file was skipped exactly
\* when force was off, the manifest held its current hash and its output
\* existed; a forced run skipped nothing; and after an unforced run on
\* unchanged sources nothing the run before compiled is compiled again
EveryRun ==
    last.n > 0 =>
        /\ last.ret = <<Cardinality(last.compiled), Cardinality(last.skipped),
                        Cardinality(last.failed)>>
        /\ last.ret[1] + last.ret[2] + last.ret[3] = Cardinality(PyFiles)
        /\ last.compiled \cup last.skipped \cup last.failed = PyFiles
        /\ last.compiled \cap last.skipped = {}
        /\ last.compiled \cap last.failed = {}
        /\ last.skipped \cap last.failed = {}
        /\ last.skipped = IF last.force THEN {} ELSE last.was.current
        /\ last.force => last.compiled \cup last.failed = PyFiles
        /\ ~edited =>
              \A f \in last.compiled : pyc[f] /\ manifest[f] = get_file_hash(source[f])
        /\ (last.unchanged /\ ~last.force) =>
              /\ last.compiled \cap last.was.compiled = {}
              /\ last.was.compiled \subseteq last.skipped

\* the manifest entry of a file changes only in a run that compiled the file
ManifestOnSuccess ==
    \A f \in Files : manifest'[f] # manifest[f] => f \in last'.compiled /\ last'.n = last.n + 1

\* C23, as amended: compile_lib is incremental as EveryRun and
\* ManifestOnSuccess say, and an unforced second run on unchanged sources
\* retries every file that failed in the first run unless the first run was
\* forced and the file was up to date all along (its current hash in the
\* manifest and its output present): such a file is skipped.
C23_IncrementalAmended ==
    /\ [](/\ EveryRun
          /\ (last.unchanged /\ ~last.force) =>
                /\ last.was.failed \ last.was.current \subseteq last.compiled \cup last.failed
                /\ ~last.was.force => last.was.failed \subseteq last.compiled \cup last.failed)
    /\ [][ManifestOnSuccess]_vars

\* a second, unforced run on unchanged sources: it skipped the file the first
\* run compiled and compiled the file that had failed
C23_Witness ==
    /\ last.n = 2 /\ last.unchanged /\ ~last.force
    /\ Cardinality(last.was.compiled) = 1 /\ Cardinality(last.was.failed) = 1
    /\ last.skipped = last.was.compiled
    /\ last.compiled = last.was.failed

\* C23: compile_lib is incremental: compiled + skipped + failed is the number
\* of .py files; a file is skipped exactly when force is off, the manifest
\* holds its current hash and its output exists; the manifest changes only on
\* success; so an unforced second run on unchanged sources compiles none of
\* the files the first run compiled and retries every file that failed, and a
\* forced run recompiles every file.
C23_Incremental ==
    /\ [](/\ EveryRun
          /\ (last.unchanged /\ ~last.force) =>
                last.was.failed \subseteq last.compiled \cup last.failed)
    /\ [][ManifestOnSuccess]_vars

====
